---------------------------- MODULE Spec2Model ----------------------------
(***************************************************************************)
(* State-machine model of the two batch pipelines of the repository:       *)
(*   - scripts/data_prep/create_gannotation.py  (reenactment pipeline)     *)
(*   - scripts/experiments/test-transfer.py     (evaluation pipeline)      *)
(* The file system, the standard error stream and the position of the      *)
(* single Python thread are the state.  The ML libraries are opaque: a     *)
(* video is the sequence of its frames, each frame saying whether the      *)
(* dlib detector finds a face in it.                                       *)
(***************************************************************************)
EXTENDS Integers, Sequences, FiniteSets, TLC

\* Longest original video, in frames.
MaxFrames == 2

\* Sequence identifiers of the data set.
Ids == {"A", "B", "C"}

\* File names {source}_{driver}.mp4 that face2face_dir may hold, in
\* lexicographic order.  "C" is only ever a driver.
AllPairs == << <<"A", "B">>, <<"A", "C">>, <<"B", "A">> >>

RECURSIVE Pick(_, _)
Pick(k, S) ==
    IF k > Len(AllPairs) THEN <<>>
    ELSE (IF k \in S THEN <<AllPairs[k]>> ELSE <<>>) \o Pick(k + 1, S)

\* utils.get_seq_combos(face2face_dir): the (source, driver) pairs named by
\* the files of the directory, in listing order.
get_seq_combos(names) == Pick(1, names)

RECURSIVE SeqsUpTo(_)
SeqsUpTo(n) ==
    IF n = 0 THEN { <<>> }
    ELSE LET shorter == SeqsUpTo(n - 1)
         IN  shorter \cup { Append(s, b) : s \in { t \in shorter : Len(t) = n - 1 },
                                           b \in BOOLEAN }

\* A video: one BOOLEAN per frame, TRUE when the detector finds a face in it.
\* The empty video also stands for an .mp4 that cannot be opened.  Frames
\* after the first faceless frame are never read, so a video ends there.
Videos == { v \in SeqsUpTo(MaxFrames) : \A k \in 1..(Len(v) - 1) : v[k] }

VARIABLES
    pairs,          \* main: pairs = get_seq_combos(face2face_dir)
    video,          \* orig_dir/{id}.mp4
    image,          \* image_dir/{id}.png: "missing", "noface" or "face"
    enc,            \* output_enc_dir/{id}.txt: [status, frames]
    vid,            \* output_vid_dir/{s}_{d}.mp4: "absent", "partial", "complete"
    run,            \* 1: first invocation, 2: second invocation on the same inputs
    pc,             \* position of the interpreter
    i,              \* index of the current pair in the running for loop
    enc_count,      \* main: enc_count
    reenact_count,  \* main: reenact_count
    stderr,         \* diagnostics printed to stderr in this run
    exc,            \* exception that ended the run, "none" if none
    intr,           \* where KeyboardInterrupt arrived in this run, "none" if nowhere
    enc0,           \* enc when this run started
    vid0,           \* vid when this run started
    prevExit        \* pc at which the previous run ended, "none" in the first run

gvars == <<pairs, video, image, enc, vid, run, pc, i, enc_count, reenact_count,
           stderr, exc, intr, enc0, vid0, prevExit>>

\* Most entries os.listdir(mtype_dir) returns.
MaxModels == 2

VARIABLES
    args,           \* command line: which arguments are valid
    mtype_dir,      \* TRUE when models_dir/{mtype} is a directory
    listing,        \* sorted(os.listdir(mtype_dir)): the kind of each entry
    csv_file,       \* the output file on disk: [exists, rows]
    output,         \* rows written to the file object and not yet flushed
    init_output,    \* main: init_output
    tpc,            \* position of the interpreter
    m,              \* index of model_name in the listing
    trun,           \* 1: first invocation, 2: second invocation
    tstderr,        \* diagnostics printed to stderr in this run
    csv_file0       \* csv_file when this run started

tvars == <<args, mtype_dir, listing, csv_file, output, init_output, tpc, m, trun,
           tstderr, csv_file0>>

vars == <<gvars, tvars>>

Absent == [status |-> "absent", frames |-> 0]

Sources == { pairs[k][1] : k \in 1..Len(pairs) }

\* A variant of the existence checks that never finds the file.
os_path_exists_never(status) == FALSE

\* os.path.exists / os.path.isfile on a path of the model's file system.
os_path_exists(status) == status # "absent"

\* hasattr(os, 'exists'): the os module has no function named exists.
os_has_exists == FALSE

\* compute_video_encoding, lines 38-61: the frames read before video.read()
\* fails or the detector finds no face; one entry of video_points per frame.
RECURSIVE read_frames(_, _)
read_frames(v, k) ==
    IF k > Len(v) THEN k - 1          \* ret is False: break
    ELSE IF ~v[k] THEN k - 1          \* len(rects) == 0: break
    ELSE read_frames(v, k + 1)

\* compute_video_encoding, lines 63-64: np.array(video_points).transpose()
\* .swapaxes(0, 1) raises AxisError on the 1-dimensional empty array.
compute_video_encoding(v) ==
    LET n == read_frames(v, 1)
    IN  [raises |-> n = 0, frames |-> n]

\* get_gann_cropped_face: None when the detector finds no face in the image.
get_gann_cropped_face(img) == IF img = "face" THEN "cropped" ELSE "None"

HasFacelessFrame(v) == \E k \in 1..Len(v) : ~v[k]

Running == pc \in {"enc_loop", "enc_save", "enc_saving", "reenact_loop",
                    "vid_write", "vid_writing"}
Ended   == pc \in {"done", "interrupted", "crashed"}

InitG ==
    /\ \E names \in SUBSET (1..Len(AllPairs)) : pairs = get_seq_combos(names)
    /\ video \in [Ids -> Videos]
    /\ image \in [Ids -> {"missing", "noface", "face"}]
    \* files of ids that are never a source are never read
    /\ \A id \in Ids \ Sources : video[id] = <<TRUE>> /\ image[id] = "face"
    \* an encoding already on disk was written by an earlier run of this program
    /\ \E have \in SUBSET { id \in Ids : ~compute_video_encoding(video[id]).raises } :
          enc = [id \in Ids |->
                    IF id \in have
                    THEN [status |-> "complete",
                          frames |-> compute_video_encoding(video[id]).frames]
                    ELSE Absent]
    /\ \E have \in SUBSET { pairs[k] : k \in 1..Len(pairs) } :
          vid = [p \in { AllPairs[k] : k \in 1..Len(AllPairs) } |->
                    IF p \in have THEN "complete" ELSE "absent"]
    /\ run = 1
    /\ pc = "enc_loop"
    /\ i = 1
    /\ enc_count = 0
    /\ reenact_count = 0
    /\ stderr = {}
    /\ exc = "none"
    /\ intr = "none"
    /\ enc0 = enc
    /\ vid0 = vid
    /\ prevExit = "none"

Inputs == <<pairs, video, image>>

\* main, lines 126-129: the encoding of source_id is already on disk.
EncSkip ==
    /\ pc = "enc_loop" /\ i <= Len(pairs)
    /\ os_path_exists(enc[pairs[i][1]].status)
    /\ i' = i + 1
    /\ UNCHANGED <<Inputs, enc, vid, run, pc, enc_count, reenact_count, stderr,
                   exc, intr, enc0, vid0, prevExit>>
    /\ UNCHANGED tvars

\* main, lines 130-134: compute the encoding of source_id.
EncCompute ==
    /\ pc = "enc_loop" /\ i <= Len(pairs)
    /\ ~os_path_exists(enc[pairs[i][1]].status)
    /\ IF compute_video_encoding(video[pairs[i][1]]).raises
       THEN pc' = "crashed" /\ exc' = "AxisError"
       ELSE pc' = "enc_save" /\ exc' = exc
    /\ UNCHANGED <<Inputs, enc, vid, run, i, enc_count, reenact_count, stderr,
                   intr, enc0, vid0, prevExit>>
    /\ UNCHANGED tvars

\* main, line 136: np.savetxt opens encoding_path for writing.
EncSaveOpen ==
    /\ pc = "enc_save"
    /\ enc' = [enc EXCEPT ![pairs[i][1]] = [status |-> "partial", frames |-> 0]]
    /\ pc' = "enc_saving"
    /\ UNCHANGED <<Inputs, vid, run, i, enc_count, reenact_count, stderr,
                   exc, intr, enc0, vid0, prevExit>>
    /\ UNCHANGED tvars

\* main, lines 136 and 143: np.savetxt has written every row; enc_count += 1.
EncSaveDone ==
    /\ pc = "enc_saving"
    /\ enc' = [enc EXCEPT ![pairs[i][1]] =
                 [status |-> "complete",
                  frames |-> compute_video_encoding(video[pairs[i][1]]).frames]]
    /\ enc_count' = enc_count + 1
    /\ i' = i + 1
    /\ pc' = "enc_loop"
    /\ UNCHANGED <<Inputs, vid, run, reenact_count, stderr, exc, intr, enc0,
                   vid0, prevExit>>
    /\ UNCHANGED tvars

\* main, lines 145-160: the encoding loop is over; the reenactment loop starts.
EncLoopEnd ==
    /\ pc = "enc_loop" /\ i > Len(pairs)
    /\ pc' = "reenact_loop"
    /\ i' = 1
    /\ UNCHANGED <<Inputs, enc, vid, run, enc_count, reenact_count, stderr, exc,
                   intr, enc0, vid0, prevExit>>
    /\ UNCHANGED tvars

\* main, lines 161-167: the reenactment video of the pair is already on disk.
ReenactSkip ==
    /\ pc = "reenact_loop" /\ i <= Len(pairs)
    /\ os_path_exists(vid[pairs[i]])
    /\ i' = i + 1
    /\ UNCHANGED <<Inputs, enc, vid, run, pc, enc_count, reenact_count, stderr,
                   exc, intr, enc0, vid0, prevExit>>
    /\ UNCHANGED tvars

\* main, lines 169-175: the encoding of driver_id is not on disk.
ReenactNoEncoding ==
    /\ pc = "reenact_loop" /\ i <= Len(pairs)
    /\ ~os_path_exists(vid[pairs[i]])
    /\ ~os_path_exists(enc[pairs[i][2]].status)
    /\ stderr' = stderr \cup { <<"Failed to find encoding", pairs[i][2]>> }
    /\ i' = i + 1
    /\ UNCHANGED <<Inputs, enc, vid, run, pc, enc_count, reenact_count, exc,
                   intr, enc0, vid0, prevExit>>
    /\ UNCHANGED tvars

\* main, lines 176-180: the image of source_id is not on disk.
ReenactNoImage ==
    /\ pc = "reenact_loop" /\ i <= Len(pairs)
    /\ ~os_path_exists(vid[pairs[i]])
    /\ os_path_exists(enc[pairs[i][2]].status)
    /\ image[pairs[i][1]] = "missing"
    /\ stderr' = stderr \cup { <<"Failed to find image", pairs[i][1]>> }
    /\ i' = i + 1
    /\ UNCHANGED <<Inputs, enc, vid, run, pc, enc_count, reenact_count, exc,
                   intr, enc0, vid0, prevExit>>
    /\ UNCHANGED tvars

\* main, lines 182-192: load the encoding, crop the face, run the generator.
\* np.loadtxt of a file cut short by an interrupted write fails when the cut
\* falls inside a row and succeeds when it falls between rows.
\* my_gann.reenactment is library code: given None instead of a cropped face
\* it either raises or returns frames.
ReenactCompute ==
    /\ pc = "reenact_loop" /\ i <= Len(pairs)
    /\ ~os_path_exists(vid[pairs[i]])
    /\ os_path_exists(enc[pairs[i][2]].status)
    /\ image[pairs[i][1]] # "missing"
    /\ \/ /\ enc[pairs[i][2]].status = "partial"
          /\ pc' = "crashed" /\ exc' = "ValueError"
       \/ /\ get_gann_cropped_face(image[pairs[i][1]]) = "None"
          /\ pc' = "crashed" /\ exc' = "TypeError"
       \/ /\ pc' = "vid_write" /\ exc' = exc
    /\ UNCHANGED <<Inputs, enc, vid, run, i, enc_count, reenact_count, stderr,
                   intr, enc0, vid0, prevExit>>
    /\ UNCHANGED tvars

\* main, line 194: write_video opens output_path for writing.
VidWriteOpen ==
    /\ pc = "vid_write"
    /\ vid' = [vid EXCEPT ![pairs[i]] = "partial"]
    /\ pc' = "vid_writing"
    /\ UNCHANGED <<Inputs, enc, run, i, enc_count, reenact_count, stderr,
                   exc, intr, enc0, vid0, prevExit>>
    /\ UNCHANGED tvars

\* main, lines 194 and 201: write_video has written every frame;
\* reenact_count += 1.
VidWriteDone ==
    /\ pc = "vid_writing"
    /\ vid' = [vid EXCEPT ![pairs[i]] = "complete"]
    /\ reenact_count' = reenact_count + 1
    /\ i' = i + 1
    /\ pc' = "reenact_loop"
    /\ UNCHANGED <<Inputs, enc, run, enc_count, stderr, exc, intr, enc0, vid0,
                   prevExit>>
    /\ UNCHANGED tvars

\* main, lines 203-206: the reenactment loop is over; main returns.
ReenactLoopEnd ==
    /\ pc = "reenact_loop" /\ i > Len(pairs)
    /\ pc' = "done"
    /\ UNCHANGED <<Inputs, enc, vid, run, i, enc_count, reenact_count, stderr,
                   exc, intr, enc0, vid0, prevExit>>
    /\ UNCHANGED tvars

\* The except KeyboardInterrupt clauses of main, lines 137-142 and 195-200:
\* os.exists(path) is evaluated first.  With os.exists defined the partial
\* file is removed and the interrupt re-raised; without it the lookup raises
\* AttributeError, which replaces the interrupt.
cleanup_handler(status) ==
    IF os_has_exists
    THEN [status |-> "absent", exc |-> "KeyboardInterrupt"]
    ELSE [status |-> status, exc |-> "AttributeError"]

\* __main__, lines 223-224: only KeyboardInterrupt is caught at top level.
top_level(e) == IF e = "KeyboardInterrupt" THEN "interrupted" ELSE "crashed"

\* KeyboardInterrupt (Ctrl-C) arrives while the pipeline is running.
Interrupt ==
    /\ Running
    /\ intr = "none"
    /\ intr' = pc
    /\ CASE pc \in {"enc_save", "enc_saving"} ->
              LET h == cleanup_handler(enc[pairs[i][1]].status)
              IN  /\ enc' = [enc EXCEPT ![pairs[i][1]] =
                               IF h.status = "absent" THEN Absent ELSE @]
                  /\ vid' = vid
                  /\ pc' = top_level(h.exc)
                  /\ exc' = IF h.exc = "KeyboardInterrupt" THEN exc ELSE h.exc
         [] pc \in {"vid_write", "vid_writing"} ->
              LET h == cleanup_handler(vid[pairs[i]])
              IN  /\ vid' = [vid EXCEPT ![pairs[i]] = h.status]
                  /\ enc' = enc
                  /\ pc' = top_level(h.exc)
                  /\ exc' = IF h.exc = "KeyboardInterrupt" THEN exc ELSE h.exc
         [] OTHER ->
              /\ pc' = top_level("KeyboardInterrupt")
              /\ UNCHANGED <<enc, vid, exc>>
    /\ UNCHANGED <<Inputs, run, i, enc_count, reenact_count, stderr, enc0, vid0,
                   prevExit>>
    /\ UNCHANGED tvars

\* The program is invoked again on the same inputs, with the file system as
\* the first invocation left it.
SecondRun ==
    /\ Ended /\ run = 1
    /\ run' = 2
    /\ prevExit' = pc
    /\ pc' = "enc_loop"
    /\ i' = 1
    /\ enc_count' = 0
    /\ reenact_count' = 0
    /\ stderr' = {}
    /\ exc' = "none"
    /\ intr' = "none"
    /\ enc0' = enc
    /\ vid0' = vid
    /\ UNCHANGED <<Inputs, enc, vid>>
    /\ UNCHANGED tvars

NextG ==
    \/ EncSkip \/ EncCompute \/ EncSaveOpen \/ EncSaveDone \/ EncLoopEnd
    \/ ReenactSkip \/ ReenactNoEncoding \/ ReenactNoImage \/ ReenactCompute
    \/ VidWriteOpen \/ VidWriteDone \/ ReenactLoopEnd
    \/ Interrupt \/ SecondRun

(***************************************************************************)
(* scripts/experiments/test-transfer.py                                    *)
(***************************************************************************)

\* main, lines 86-87: the header row; run is the invocation that wrote it,
\* 0 for an invocation before the first one modelled.
headers(r) == [kind |-> "header", run |-> r, model |-> 0]

\* main, lines 135-138: data_line of the model at index k of the listing.
data_line(r, k) == [kind |-> "row", run |-> r, model |-> k]

\* A row left in the file by an invocation before the first one modelled.
OldRow == [kind |-> "row", run |-> 0, model |-> 1]

\* Entries of mtype_dir: a plain file, a directory without best.hdf5, a
\* directory {orig}-to-{trans} with best.hdf5, a directory with best.hdf5
\* whose name does not split into three parts at '-'.
Kinds == {"file", "nobest", "model", "badname"}

RECURSIVE KindSeqs(_)
KindSeqs(n) ==
    IF n = 0 THEN { <<>> }
    ELSE LET shorter == KindSeqs(n - 1)
         IN  shorter \cup { Append(s, e) : s \in { t \in shorter : Len(t) = n - 1 },
                                           e \in Kinds }

ArgSets == [data_dir : BOOLEAN, models_dir : BOOLEAN, gpu_frac : BOOLEAN,
            mtype : BOOLEAN]

\* main, line 82: init_output = not os.path.exists(output_file)
compute_init_output(exists) == ~exists

\* A variant of line 140 that leaves the rows in the buffer.
flush_nothing(rows, buffer) == [rows |-> rows, buffer |-> buffer]

\* output.flush(), line 140: the buffered rows go to the end of the file.
flush(rows, buffer) == [rows |-> rows \o buffer, buffer |-> <<>>]

\* output.close(), line 142, and the shutdown of the interpreter (exit(), an
\* uncaught exception, the top-level except clause): the file object is
\* closed, its buffer flushed.
at_exit(rows, buffer) == [rows |-> rows \o buffer, buffer |-> <<>>]

IsPrefix(s, t) == Len(s) <= Len(t) /\ SubSeq(t, 1, Len(s)) = s

Range(s) == { s[k] : k \in 1..Len(s) }

TRunning == tpc \in {"start", "main", "open", "headers", "generators", "loop",
                     "evaluated", "written", "exiting1", "exiting2"}
TEnded == tpc \in {"done", "exit1", "exit2", "interrupted", "crashed", "killed"}

Inputs_T == <<args, mtype_dir, listing>>

IdleT ==
    /\ args = [data_dir |-> TRUE, models_dir |-> TRUE, gpu_frac |-> TRUE,
               mtype |-> TRUE]
    /\ mtype_dir = TRUE
    /\ listing = <<>>
    /\ csv_file = [exists |-> FALSE, rows |-> <<>>]
    /\ output = <<>>
    /\ init_output = FALSE
    /\ tpc = "idle"
    /\ m = 1
    /\ trun = 1
    /\ tstderr = {}
    /\ csv_file0 = csv_file

IdleG ==
    /\ pairs = <<>>
    /\ video = [id \in Ids |-> <<TRUE>>]
    /\ image = [id \in Ids |-> "face"]
    /\ enc = [id \in Ids |-> Absent]
    /\ vid = [p \in { AllPairs[k] : k \in 1..Len(AllPairs) } |-> "absent"]
    /\ run = 1
    /\ pc = "idle"
    /\ i = 1
    /\ enc_count = 0
    /\ reenact_count = 0
    /\ stderr = {}
    /\ exc = "none"
    /\ intr = "none"
    /\ enc0 = enc
    /\ vid0 = vid
    /\ prevExit = "none"

InitT ==
    /\ args \in ArgSets
    /\ mtype_dir \in BOOLEAN
    /\ listing \in KindSeqs(MaxModels)
    /\ csv_file \in { [exists |-> FALSE, rows |-> <<>>],
                      [exists |-> TRUE, rows |-> <<headers(0)>>],
                      [exists |-> TRUE, rows |-> <<headers(0), OldRow>>] }
    /\ output = <<>>
    /\ init_output = FALSE
    /\ tpc = "start"
    /\ m = 1
    /\ trun = 1
    /\ tstderr = {}
    /\ csv_file0 = csv_file

\* __main__, lines 175-192: validate the arguments, then call main.
ValidateArgs ==
    /\ tpc = "start"
    /\ IF ~args.data_dir
       THEN tpc' = "exiting2" /\ tstderr' = tstderr \cup {"data_dir is not a directory"}
       ELSE IF ~args.models_dir
       THEN tpc' = "exiting2" /\ tstderr' = tstderr \cup {"models_dir is not a directory"}
       ELSE IF ~args.gpu_frac
       THEN tpc' = "exiting2" /\ tstderr' = tstderr \cup {"gpu-fraction must be between 0.0 and 1.0"}
       ELSE tpc' = "main" /\ tstderr' = tstderr
    /\ UNCHANGED <<Inputs_T, csv_file, output, init_output, m, trun, csv_file0>>
    /\ UNCHANGED gvars

\* main, lines 70-79: the model type must be a key of MODEL_MAP.
CheckMtype ==
    /\ tpc = "main"
    /\ IF ~args.mtype
       THEN tpc' = "exiting2" /\ tstderr' = tstderr \cup {"not a valid model type"}
       ELSE tpc' = "open" /\ tstderr' = tstderr
    /\ UNCHANGED <<Inputs_T, csv_file, output, init_output, m, trun, csv_file0>>
    /\ UNCHANGED gvars

\* __main__, lines 178, 181, 184, and main, line 74: exit(2), after the
\* diagnostic has been printed.  No file is open yet.
Exit2 ==
    /\ tpc = "exiting2"
    /\ tpc' = "exit2"
    /\ UNCHANGED <<Inputs_T, csv_file, output, init_output, m, trun, tstderr,
                   csv_file0>>
    /\ UNCHANGED gvars

\* main, lines 81-84: open the output file for appending, which creates it
\* when absent.
OpenOutput ==
    /\ tpc = "open"
    /\ init_output' = compute_init_output(csv_file.exists)
    /\ csv_file' = [csv_file EXCEPT !.exists = TRUE]
    /\ tpc' = "headers"
    /\ UNCHANGED <<Inputs_T, output, m, trun, tstderr, csv_file0>>
    /\ UNCHANGED gvars

\* main, lines 85-88: write the headers to a new file.
WriteHeaders ==
    /\ tpc = "headers"
    /\ output' = IF init_output THEN Append(output, headers(trun)) ELSE output
    /\ tpc' = "generators"
    /\ UNCHANGED <<Inputs_T, csv_file, init_output, m, trun, tstderr, csv_file0>>
    /\ UNCHANGED gvars

\* main, lines 90-104: load the generators; print the diagnostic when
\* models_dir/{mtype} is no directory; list the directory otherwise.
CheckMtypeDir ==
    /\ tpc = "generators"
    /\ IF ~mtype_dir
       THEN /\ tpc' = "exiting1"
            /\ tstderr' = tstderr \cup {"No directory found for model type"}
       ELSE /\ tpc' = "loop"
            /\ tstderr' = tstderr
    /\ UNCHANGED <<Inputs_T, csv_file, output, init_output, m, trun, csv_file0>>
    /\ UNCHANGED gvars

\* main, line 101: exit(1), after the diagnostic has been printed; the
\* interpreter shuts down and the open file object is flushed.
Exit1 ==
    /\ tpc = "exiting1"
    /\ tpc' = "exit1"
    /\ csv_file' = [csv_file EXCEPT !.rows = at_exit(@, output).rows]
    /\ output' = at_exit(csv_file.rows, output).buffer
    /\ UNCHANGED <<Inputs_T, init_output, m, trun, tstderr, csv_file0>>
    /\ UNCHANGED gvars

\* main, lines 107-109: the entry is a plain file.
LoopSkipFile ==
    /\ tpc = "loop" /\ m <= Len(listing)
    /\ listing[m] = "file"
    /\ m' = m + 1
    /\ UNCHANGED <<Inputs_T, csv_file, output, init_output, tpc, trun, tstderr,
                   csv_file0>>
    /\ UNCHANGED gvars

\* main, lines 111-116: the directory holds no best.hdf5.
LoopNoBest ==
    /\ tpc = "loop" /\ m <= Len(listing)
    /\ listing[m] = "nobest"
    /\ tstderr' = tstderr \cup { <<"best.hdf5 does not exist. Skipping.", m>> }
    /\ m' = m + 1
    /\ UNCHANGED <<Inputs_T, csv_file, output, init_output, tpc, trun, csv_file0>>
    /\ UNCHANGED gvars

\* main, lines 118-132: load the model and compute its recall on every class.
LoopEvaluate ==
    /\ tpc = "loop" /\ m <= Len(listing)
    /\ listing[m] \in {"model", "badname"}
    /\ tpc' = "evaluated"
    /\ UNCHANGED <<Inputs_T, csv_file, output, init_output, m, trun, tstderr,
                   csv_file0>>
    /\ UNCHANGED gvars

\* main, lines 134-139: split the model name and write its row.  The
\* unpacking of the split raises ValueError unless there are three parts;
\* the interpreter then shuts down.
WriteRow ==
    /\ tpc = "evaluated"
    /\ IF listing[m] = "badname"
       THEN /\ tpc' = "crashed"
            /\ csv_file' = [csv_file EXCEPT !.rows = at_exit(@, output).rows]
            /\ output' = at_exit(csv_file.rows, output).buffer
       ELSE /\ tpc' = "written"
            /\ output' = Append(output, data_line(trun, m))
            /\ csv_file' = csv_file
    /\ UNCHANGED <<Inputs_T, init_output, m, trun, tstderr, csv_file0>>
    /\ UNCHANGED gvars

\* main, line 140: output.flush(); the loop goes on to the next entry.
FlushRow ==
    /\ tpc = "written"
    /\ csv_file' = [csv_file EXCEPT !.rows = flush(@, output).rows]
    /\ output' = flush(csv_file.rows, output).buffer
    /\ m' = m + 1
    /\ tpc' = "loop"
    /\ UNCHANGED <<Inputs_T, init_output, trun, tstderr, csv_file0>>
    /\ UNCHANGED gvars

\* main, line 142: the loop is over; output.close().
CloseOutput ==
    /\ tpc = "loop" /\ m > Len(listing)
    /\ csv_file' = [csv_file EXCEPT !.rows = at_exit(@, output).rows]
    /\ output' = at_exit(csv_file.rows, output).buffer
    /\ tpc' = "done"
    /\ UNCHANGED <<Inputs_T, init_output, m, trun, tstderr, csv_file0>>
    /\ UNCHANGED gvars

\* __main__, lines 194-195: KeyboardInterrupt is caught at top level; the
\* interpreter shuts down.
TInterrupt ==
    /\ TRunning
    /\ tpc' = "interrupted"
    /\ csv_file' = [csv_file EXCEPT !.rows = at_exit(@, output).rows]
    /\ output' = at_exit(csv_file.rows, output).buffer
    /\ UNCHANGED <<Inputs_T, init_output, m, trun, tstderr, csv_file0>>
    /\ UNCHANGED gvars

\* The process is killed (SIGKILL, power loss): nothing runs any more and
\* the rows still in the buffer of the file object are lost.
Kill ==
    /\ TRunning
    /\ tpc' = "killed"
    /\ output' = <<>>
    /\ UNCHANGED <<Inputs_T, csv_file, init_output, m, trun, tstderr, csv_file0>>
    /\ UNCHANGED gvars

\* The program is invoked again with the same arguments and output file;
\* the models directory may have changed in between.
TSecondRun ==
    /\ TEnded /\ trun = 1
    /\ trun' = 2
    /\ args' = args
    /\ mtype_dir' \in BOOLEAN
    /\ listing' \in KindSeqs(MaxModels)
    /\ output' = <<>>
    /\ init_output' = FALSE
    /\ tpc' = "start"
    /\ m' = 1
    /\ tstderr' = {}
    /\ csv_file0' = csv_file
    /\ UNCHANGED csv_file
    /\ UNCHANGED gvars

NextT ==
    \/ ValidateArgs \/ CheckMtype \/ Exit2 \/ OpenOutput \/ WriteHeaders
    \/ CheckMtypeDir \/ Exit1
    \/ LoopSkipFile \/ LoopNoBest \/ LoopEvaluate \/ WriteRow \/ FlushRow
    \/ CloseOutput \/ TInterrupt \/ Kill \/ TSecondRun

(***************************************************************************)
(* Properties of the reenactment pipeline, checked under Spec.             *)
(***************************************************************************)

SourceOf(k) == pairs[k][1]
DriverOf(k) == pairs[k][2]
PairSet == { pairs[k] : k \in 1..Len(pairs) }

\* C1: when KeyboardInterrupt arrives while an encoding file or a
\* reenactment video is being written, no file is left at the path of that
\* artifact once the write step has been left.
C1_NoFileAfterInterruptedWrite ==
    /\ intr \in {"enc_save", "enc_saving"} => enc[SourceOf(i)].status = "absent"
    /\ intr \in {"vid_write", "vid_writing"} => vid[pairs[i]] = "absent"

\* C2: once the encoding phase has finished without error, the encoding of
\* the driver of every enumerated pair is on disk.
C2_DriverEncodingExistsAfterEncoding ==
    pc = "reenact_loop" =>
        \A k \in 1..Len(pairs) : os_path_exists(enc[DriverOf(k)].status)

\* The work items of a run that hit a per-item failure: a source video with
\* a faceless frame whose encoding had to be computed, a pair whose video
\* had to be computed and whose source image shows no face.
NoFaceInVideo(k) ==
    /\ ~os_path_exists(enc0[SourceOf(k)].status)
    /\ HasFacelessFrame(video[SourceOf(k)])
NoFaceInImage(k) ==
    /\ ~os_path_exists(vid0[pairs[k]])
    /\ os_path_exists(enc[DriverOf(k)].status)
    /\ image[SourceOf(k)] = "noface"

\* C3: a per-item failure never aborts the run, and at the end of the run
\* every failed item has a diagnostic on stderr and no artifact.
C3_PerItemFailureSkipsItemOnly ==
    /\ (pc = "crashed" /\ exc = "AxisError") => ~NoFaceInVideo(i)
    /\ (pc = "crashed" /\ exc = "TypeError") => ~NoFaceInImage(i)
    /\ pc = "done" =>
          /\ \A k \in 1..Len(pairs) : NoFaceInVideo(k) =>
                /\ \E d \in stderr : d[2] = SourceOf(k)
                /\ enc[SourceOf(k)].status = "absent"
          /\ \A k \in 1..Len(pairs) : NoFaceInImage(k) =>
                /\ \E d \in stderr : d[2] = SourceOf(k)
                /\ vid[pairs[k]] = "absent"

\* C4: no encoding file is written for a video in which some frame shows no
\* face.
C4_NoEncodingForFacelessVideo ==
    \A id \in Ids :
        (~os_path_exists(enc0[id].status) /\ HasFacelessFrame(video[id]))
            => enc[id].status # "complete"

\* C5: a run in which KeyboardInterrupt arrived ends as a graceful stop: the
\* interrupt is caught at top level and no other exception ends the run.
C5_InterruptIsGracefulStop ==
    intr # "none" => (pc = "interrupted" /\ exc = "none")

\* The inputs hold no per-item failure: every source video has frames and a
\* face in each, every source image exists and shows a face, and no file on
\* disk was cut short.
HealthyInputs ==
    /\ \A id \in Sources :
          /\ video[id] # <<>> /\ ~HasFacelessFrame(video[id])
          /\ image[id] = "face"
    /\ \A id \in Ids : enc0[id].status # "partial"
    /\ \A p \in PairSet : vid0[p] # "partial"

\* The artifacts the work items imply, and those missing when the run started.
MissingEncodings == { id \in Sources : ~os_path_exists(enc0[id].status) }
MissingVideos == { p \in PairSet : ~os_path_exists(vid0[p]) }

\* C6: a run that ends normally has computed exactly the artifacts that were
\* missing when it started, and afterwards all artifacts exist.
C6_RunComputesExactlyTheMissing ==
    (pc = "done" /\ HealthyInputs) =>
        /\ \A id \in Sources : enc[id].status = "complete"
        /\ \A p \in PairSet : vid[p] = "complete"
        /\ enc_count = Cardinality(MissingEncodings)
        /\ reenact_count = Cardinality(MissingVideos)

\* C7: a second run on the same inputs, started from the file system a
\* complete first run left, writes no artifact and counts no encoding and no
\* reenactment.
C7_SecondRunWritesNothing ==
    (run = 2 /\ prevExit = "done") =>
        /\ enc = enc0 /\ vid = vid0
        /\ enc_count = 0 /\ reenact_count = 0
        /\ pc \notin {"enc_save", "enc_saving", "vid_write", "vid_writing", "crashed"}

\* A second run has ended after a first run that ended normally; all three
\* pairs were enumerated, two videos are on disk and are skipped, the third
\* is attempted again and reported again.
C7_Witness ==
    /\ run = 2 /\ prevExit = "done" /\ pc = "done"
    /\ Len(pairs) = 3
    /\ vid[<<"A", "B">>] = "complete" /\ vid[<<"B", "A">>] = "complete"
    /\ vid[<<"A", "C">>] = "absent"
    /\ <<"Failed to find encoding", "C">> \in stderr

(***************************************************************************)
(* Properties of the evaluation pipeline, checked under SpecEval.          *)
(***************************************************************************)

\* C8: over the runs on one output file the report is append-only and the
\* header row is written exactly once, by the run that finds the file
\* absent: the content the run started from stays a prefix of the file, the
\* file never holds more than one header row, and whatever the file holds
\* starts with the header row.
C8_HeaderOnceAppendOnly ==
    /\ IsPrefix(csv_file0.rows, csv_file.rows)
    /\ Cardinality({ j \in 1..Len(csv_file.rows) :
                        csv_file.rows[j].kind = "header" }) <= 1
    /\ csv_file.rows # <<>> => csv_file.rows[1].kind = "header"

\* C9: a run that stops on a fatal error (exit code 1 or 2) has neither
\* created nor modified the output file.
C9_FatalExitLeavesReportUntouched ==
    tpc \in {"exit1", "exit2"} => csv_file = csv_file0

\* C10: at every point of a run, also after a crash, the row of every model
\* the loop has completed is in the file, and at most one row is waiting in
\* the buffer.
C10_CompletedRowsOnDisk ==
    /\ \A j \in 1..Len(listing) :
          (j < m /\ listing[j] = "model") =>
              data_line(trun, j) \in Range(csv_file.rows)
    /\ Cardinality({ k \in 1..Len(output) : output[k].kind = "row" }) <= 1

\* The process was killed while the second model was in flight: the row of
\* the first model is in the file, the row of the second is not.
C10_Witness ==
    /\ tpc = "killed" /\ m = 2
    /\ listing = <<"model", "model">>
    /\ data_line(trun, 1) \in Range(csv_file.rows)
    /\ data_line(trun, 2) \notin Range(csv_file.rows)

\* The reenactment pipeline.
Init == InitG /\ IdleT

Spec == Init /\ [][NextG]_vars

\* The evaluation pipeline.
InitEval == InitT /\ IdleG

SpecEval == InitEval /\ [][NextT]_vars

=============================================================================
